---- MODULE Spec2Model ----
(***************************************************************************)
(* KhutbahMaker (src/src/khutbahmaker/__init__.py).                        *)
(*                                                                         *)
(* One KhutbahMaker object is shared by a set of callers.  Each caller     *)
(* runs generate_khutbah: validation, task id, generator stage (remote     *)
(* model call + fence cleaning), renderer stage (file name, document,      *)
(* save), result pair.  Python strings are sequences of one-character      *)
(* strings, so that the regular expressions, strip(), startswith(),        *)
(* lower() and replace() are computed character by character.              *)
(***************************************************************************)
EXTENDS Integers, Sequences, FiniteSets, TLC

VARIABLES
    api_key,        \* self.api_key
    aigc_model,     \* self.aigc_model
    genai_key,      \* the client library's process-wide configured credential
    log,            \* the logging sink: the set of lines emitted so far
    files,          \* the temporary directory: path -> saved document
    lastSaver,      \* history: path -> task id of the call whose save came last
    nextTask,       \* number of task ids handed out so far
    calls,          \* number of generate_khutbah calls started so far
    lastStatus,     \* history: outcome of the most recently returned call
    pc,             \* per caller: position inside generate_khutbah
    topic,          \* per caller: argument topic
    language,       \* per caller: argument language
    task_id,        \* per caller: local task_id (0 = not allocated)
    markdown_text,  \* per caller: local markdown_text
    pdf_file,       \* per caller: local pdf_file
    result,         \* per caller: the returned pair
    modelCalls,     \* per caller: model.generate_content calls in this call
    rendererCalls,  \* per caller: __khutbah_to_pdf invocations in this call
    fileWrites,     \* per caller: pdf.save calls that wrote in this call
    genOutcome,     \* per caller: what the remote model did in this call
    renOutcome,     \* per caller: what the rendering library did in this call
    prev,           \* per caller: lastStatus when this call started
    cm,             \* __clean_markdown applied to one fenced response
    fn              \* the renderer's file name computation for one request

vars == <<api_key, aigc_model, genai_key, log, files, lastSaver, nextTask,
          calls, lastStatus, pc, topic, language, task_id, markdown_text,
          pdf_file, result, modelCalls, rendererCalls, fileWrites,
          genOutcome, renOutcome, prev, cm, fn>>

mainVars == <<api_key, aigc_model, genai_key, log, files, lastSaver, nextTask,
              calls, lastStatus, pc, topic, language, task_id, markdown_text,
              pdf_file, result, modelCalls, rendererCalls, fileWrites,
              genOutcome, renOutcome, prev>>

----------------------------------------------------------------------------
(* Bounds *)

\* total number of generate_khutbah calls in one behaviour
MaxCalls == 2
\* longest interior text of a fenced response given to __clean_markdown
MaxInterior == 3
\* longest topic given to the file name computation
MaxTopicLen == 2

----------------------------------------------------------------------------
(* Python values *)

None == [some |-> FALSE, val |-> <<>>]
Some(s) == [some |-> TRUE, val |-> s]

\* Python truthiness of an optional string: None and "" are falsy
Truthy(v) == v.some /\ v.val # <<>>

NL == "\n"
\* the backtick character (written as a name: the character itself cannot stand in a string here)
TICK == "BACKTICK"

UpperSeq == <<"A","B","C","D","E","F","G","H","I","J","K","L","M",
              "N","O","P","Q","R","S","T","U","V","W","X","Y","Z">>
LowerSeq == <<"a","b","c","d","e","f","g","h","i","j","k","l","m",
              "n","o","p","q","r","s","t","u","v","w","x","y","z">>
Digits == {"0","1","2","3","4","5","6","7","8","9"}
\* word characters outside ASCII that the model's alphabets use
UnicodeWord == {"E_ACUTE", "ARABIC_AIN"}

Range(s) == {s[i] : i \in 1..Len(s)}

\* [a-zA-Z]
IsAsciiLetter(c) == c \in Range(UpperSeq) \cup Range(LowerSeq)

\* \w of a str pattern: Unicode alphanumerics and the underscore
IsWordChar(c) == IsAsciiLetter(c) \/ c \in Digits \/ c = "_" \/ c \in UnicodeWord

\* str.strip() whitespace
IsSpace(c) == c \in {" ", NL, "\t", "\r"}

\* one character of str.lower()
LowerChar(c) ==
    IF \E i \in 1..Len(UpperSeq) : UpperSeq[i] = c
    THEN LowerSeq[CHOOSE i \in 1..Len(UpperSeq) : UpperSeq[i] = c]
    ELSE c

Lower(s) == [i \in 1..Len(s) |-> LowerChar(s[i])]

\* s.replace(' ', '_')
ReplaceSpace(s) == [i \in 1..Len(s) |-> IF s[i] = " " THEN "_" ELSE s[i]]

\* text.startswith(prefix)
StartsWith(text, prefix) ==
    /\ Len(text) >= Len(prefix)
    /\ SubSeq(text, 1, Len(prefix)) = prefix

\* all strings over alphabet A of length at most n
StringsUpTo(A, n) == UNION {[1..k -> A] : k \in 0..n}

----------------------------------------------------------------------------
(* __clean_markdown *)

HasTicks(text, i) ==
    /\ i + 2 <= Len(text)
    /\ text[i] = TICK /\ text[i+1] = TICK /\ text[i+2] = TICK

\* first index at or after i that holds no ASCII letter ([a-zA-Z]* is greedy)
RECURSIVE SkipLetters(_, _)
SkipLetters(text, i) ==
    IF i <= Len(text) /\ IsAsciiLetter(text[i])
    THEN SkipLetters(text, i + 1)
    ELSE i

\* index after a match of <fence>[a-zA-Z]*\n starting at i, or 0 if none
OpenFenceEnd(text, i) ==
    IF HasTicks(text, i)
    THEN LET j == SkipLetters(text, i + 3)
         IN  IF j <= Len(text) /\ text[j] = NL THEN j + 1 ELSE 0
    ELSE 0

\* re.sub(r'<fence>[a-zA-Z]*\n', '', text), scanning from index i
RECURSIVE SubOpenFence(_, _)
SubOpenFence(text, i) ==
    IF i > Len(text) THEN <<>>
    ELSE LET e == OpenFenceEnd(text, i)
         IN  IF e > 0 THEN SubOpenFence(text, e)
             ELSE <<text[i]>> \o SubOpenFence(text, i + 1)

\* index after a match of <fence>\n? starting at i, or 0 if none
AnyFenceEnd(text, i) ==
    IF HasTicks(text, i)
    THEN IF i + 3 <= Len(text) /\ text[i+3] = NL THEN i + 4 ELSE i + 3
    ELSE 0

\* re.sub(r'<fence>\n?', '', text), scanning from index i
RECURSIVE SubAnyFence(_, _)
SubAnyFence(text, i) ==
    IF i > Len(text) THEN <<>>
    ELSE LET e == AnyFenceEnd(text, i)
         IN  IF e > 0 THEN SubAnyFence(text, e)
             ELSE <<text[i]>> \o SubAnyFence(text, i + 1)

RECURSIVE LStrip(_)
LStrip(s) == IF s # <<>> /\ IsSpace(Head(s)) THEN LStrip(Tail(s)) ELSE s

RECURSIVE RStrip(_)
RStrip(s) ==
    IF s # <<>> /\ IsSpace(s[Len(s)]) THEN RStrip(SubSeq(s, 1, Len(s) - 1)) ELSE s

\* text.strip()
Strip(s) == RStrip(LStrip(s))

clean_markdown(text) == Strip(SubAnyFence(SubOpenFence(text, 1), 1))

----------------------------------------------------------------------------
(* file name and path of the renderer *)

\* a pattern that also lets dots and slashes through
clean_topic_keeps_dots(t) ==
    [i \in 1..Len(t) |->
        IF IsWordChar(t[i]) \/ t[i] \in {"-", ".", "/"} THEN t[i] ELSE "_"]

\* re.sub(r'[^\w\-]', '_', topic)
clean_topic(t) ==
    [i \in 1..Len(t) |-> IF IsWordChar(t[i]) \/ t[i] = "-" THEN t[i] ELSE "_"]

KhutbahInfix == <<"_","k","h","u","t","b","a","h","_">>

\* f"{clean_topic}_khutbah_{language.lower().replace(' ', '_')}"
clean_filename(t, lang) == clean_topic(t) \o KhutbahInfix \o ReplaceSpace(Lower(lang))

\* tempfile.gettempdir() on a POSIX platform
TempDir == <<"/","t","m","p">>
PdfExt == <<".","p","d","f">>

\* os.path.join(tempfile.gettempdir(), f"{clean_filename}.pdf")
pdf_path(t, lang) == TempDir \o <<"/">> \o clean_filename(t, lang) \o PdfExt

\* os.path.dirname / os.path.basename of a POSIX path
LastSlash(p) ==
    IF \E i \in 1..Len(p) : p[i] = "/"
    THEN CHOOSE i \in 1..Len(p) : p[i] = "/" /\ \A j \in (i+1)..Len(p) : p[j] # "/"
    ELSE 0
Dirname(p) == IF LastSlash(p) <= 1 THEN SubSeq(p, 1, LastSlash(p)) ELSE SubSeq(p, 1, LastSlash(p) - 1)
Basename(p) == SubSeq(p, LastSlash(p) + 1, Len(p))

\* the five language labels of generate_khutbah's documentation
BahasaMalaysia == <<"B","a","h","a","s","a"," ","M","a","l","a","y","s","i","a">>
Arabic == <<"A","r","a","b","i","c">>
English == <<"E","n","g","l","i","s","h">>
Mandarin == <<"M","a","n","d","a","r","i","n">>
Tamil == <<"T","a","m","i","l">>
Languages == {BahasaMalaysia, Arabic, English, Mandarin, Tamil}

----------------------------------------------------------------------------
(* the callers, their arguments and what the collaborators may do *)

Callers == {"c1", "c2"}

TopicEmpty == <<>>
TopicUnsafe == <<"R","/","F","!">>
CallTopics == {TopicEmpty, TopicUnsafe}
CallLanguages == {BahasaMalaysia, English}

\* the prefix of a top-level heading
H1 == <<"#"," ">>

\* response.text values of the remote model
RespPlain == <<"x">>
RespFenced == <<TICK,TICK,TICK,"m","d",NL,"y",NL,TICK,TICK,TICK>>
RespHeading == <<"#"," ","T">>
RespEmptyFence == <<TICK,TICK,TICK,NL,TICK,TICK,TICK>>
Responses == {RespPlain, RespFenced, RespHeading, RespEmptyFence}

NoOutcome == [kind |-> "none", text |-> <<>>]
Raised == [kind |-> "raise", text |-> <<>>]
Returned(t) == [kind |-> "text", text |-> t]
\* genai.configure / GenerativeModel / generate_content / response.text either
\* raise (network, auth, malformed response) or yield a text
GenOutcomes == {Raised} \cup {Returned(t) : t \in Responses}

\* Section / add_section and pdf.save either succeed or raise
RenOutcomes == {"ok", "render_error", "save_error"}

DefaultModel == "gemini-2.0-flash-thinking-exp-01-21"
Key == <<"k","e","y">>

NonePair == <<None, None>>
LogRec(level, task, msg) == [level |-> level, task |-> task, msg |-> msg]
NoFiles == [p \in {} |-> None]

----------------------------------------------------------------------------
(* __generate_khutbah *)

\* lines 51-58: the cleaned response text, or None from the except clause
GeneratorResult(o) ==
    IF o.kind = "raise" THEN None ELSE Some(clean_markdown(o.text))

\* a retry after a raised call
GenerateContentCallsRetry(o) == IF o.kind = "raise" THEN 2 ELSE 1

\* line 52: one generate_content call, whatever it does
GenerateContentCalls(o) == 1

\* lines 46, 57: the lines the generator logs
GeneratorLog(task, o) ==
    {LogRec("info", task, "Generating khutbah on topic")}
    \cup (IF o.kind = "raise"
          THEN {LogRec("error", task, "Khutbah generation failed")}
          ELSE {})

\* lines 43-44: genai.configure only when self.api_key is truthy
Configured(current, key) == IF Truthy(key) THEN key ELSE current

----------------------------------------------------------------------------
(* __khutbah_to_pdf *)

KhutbahOn == <<"K","h","u","t","b","a","h"," ","o","n"," ">>

\* lines 120-122: title is bound only when the text has no top-level heading
TitleBound(md) == ~StartsWith(md, H1)
Title(t) == KhutbahOn \o t
\* line 122: the local markdown_text after the heading check; no later line
\* reads it, so no action uses it
WithHeading(md, t) ==
    IF ~StartsWith(md, H1) THEN H1 \o Title(t) \o <<NL, NL>> \o md ELSE md

\* lines 116-117: the section is built from markdown_text as it is at line 116,
\* before the heading check of line 120
SectionText(md, t) == md

\* the try body raises: the library at 116-117, the unbound title at 125, or
\* the save at 131
RendererRaises(md, o) ==
    \/ o = "render_error"
    \/ ~TitleBound(md)
    \/ o = "save_error"

Document(md, t) == [content |-> SectionText(md, t), title |-> Title(t)]

\* a save that refuses to replace an existing file
SavedExclusive(fs, path, doc) ==
    [p \in DOMAIN fs \cup {path} |-> IF p \in DOMAIN fs THEN fs[p] ELSE doc]

\* line 131: pdf.save(pdf_path) creates or overwrites the file
Saved(fs, path, doc) ==
    [p \in DOMAIN fs \cup {path} |-> IF p = path THEN doc ELSE fs[p]]

\* history of line 131: which call saved to the path last
NoteSaver(h, path, task) ==
    [p \in DOMAIN h \cup {path} |-> IF p = path THEN task ELSE h[p]]

\* lines 132, 136: the path, or None from the except clause
RendererResult(md, t, lang, o) ==
    IF RendererRaises(md, o) THEN None ELSE Some(pdf_path(t, lang))

\* lines 67, 135
RendererLog(task, md, o) ==
    {LogRec("info", task, "Generating Khutbah PDF")}
    \cup (IF RendererRaises(md, o)
          THEN {LogRec("error", task, "Khutbah PDF generation failed")}
          ELSE {})

----------------------------------------------------------------------------
(* generate_khutbah *)

\* the validation left out
TopicMissingNever(t) == FALSE

\* line 158: not topic or topic == ""
TopicMissing(t) == t = <<>>

\* the check of the generator's result left out
GeneratorFailedNever(md) == FALSE

\* line 167: not markdown_text
GeneratorFailed(md) == ~Truthy(md)

\* the check of the renderer's result left out
RendererFailedNever(pdf) == FALSE

\* line 171: not pdf_file
RendererFailed(pdf) == ~Truthy(pdf)

Status(r) == IF r = NonePair THEN "fail" ELSE "ok"

InitMain ==
    /\ api_key \in {None, Some(Key)}
    /\ aigc_model = DefaultModel
    /\ genai_key = None
    /\ log = {LogRec("info", 0, "KhutbahMaker is ready!")}
    /\ files = NoFiles
    /\ lastSaver = NoFiles
    /\ nextTask = 0
    /\ calls = 0
    /\ lastStatus = "none"
    /\ pc = [c \in Callers |-> "idle"]
    /\ topic = [c \in Callers |-> <<>>]
    /\ language = [c \in Callers |-> <<>>]
    /\ task_id = [c \in Callers |-> 0]
    /\ markdown_text = [c \in Callers |-> None]
    /\ pdf_file = [c \in Callers |-> None]
    /\ result = [c \in Callers |-> NonePair]
    /\ modelCalls = [c \in Callers |-> 0]
    /\ rendererCalls = [c \in Callers |-> 0]
    /\ fileWrites = [c \in Callers |-> 0]
    /\ genOutcome = [c \in Callers |-> NoOutcome]
    /\ renOutcome = [c \in Callers |-> "none"]
    /\ prev = [c \in Callers |-> "none"]

\* cm and fn when the object is exercised through generate_khutbah only
CmIdle == [pc |-> "off", tag |-> <<>>, interior |-> <<>>, text |-> <<>>, out |-> <<>>]
FnIdle == [pc |-> "off", topic |-> <<>>, language |-> <<>>, path |-> <<>>]

Init == InitMain /\ cm = CmIdle /\ fn = FnIdle

\* lines 149-163: entry of generate_khutbah up to the start of the try block
Call(c) ==
    /\ pc[c] = "idle"
    /\ calls < MaxCalls
    /\ \E t \in CallTopics, lang \in CallLanguages :
        /\ topic' = [topic EXCEPT ![c] = t]
        /\ language' = [language EXCEPT ![c] = lang]
        /\ prev' = [prev EXCEPT ![c] = lastStatus]
        /\ IF TopicMissing(t)
           THEN /\ log' = log \cup {LogRec("error", 0, "Topic is required!")}
                /\ result' = [result EXCEPT ![c] = NonePair]
                /\ pc' = [pc EXCEPT ![c] = "done"]
                /\ lastStatus' = "fail"
                /\ UNCHANGED <<nextTask, task_id>>
           ELSE /\ nextTask' = nextTask + 1
                /\ task_id' = [task_id EXCEPT ![c] = nextTask + 1]
                /\ log' = log \cup {LogRec("info", nextTask + 1, "Khutbah generation started!")}
                /\ pc' = [pc EXCEPT ![c] = "generating"]
                /\ UNCHANGED <<result, lastStatus>>
    /\ calls' = calls + 1
    /\ UNCHANGED <<api_key, aigc_model, genai_key, files, lastSaver, markdown_text,
                   pdf_file, modelCalls, rendererCalls, fileWrites, genOutcome,
                   renOutcome, cm, fn>>

\* lines 166-168 with __generate_khutbah (40-58)
Generate(c) ==
    /\ pc[c] = "generating"
    /\ \E o \in GenOutcomes :
        LET md == GeneratorResult(o) IN
        /\ genOutcome' = [genOutcome EXCEPT ![c] = o]
        /\ genai_key' = Configured(genai_key, api_key)
        /\ modelCalls' = [modelCalls EXCEPT ![c] = @ + GenerateContentCalls(o)]
        /\ log' = log \cup GeneratorLog(task_id[c], o)
        /\ markdown_text' = [markdown_text EXCEPT ![c] = md]
        /\ IF GeneratorFailed(md)
           THEN /\ result' = [result EXCEPT ![c] = NonePair]
                /\ pc' = [pc EXCEPT ![c] = "done"]
                /\ lastStatus' = "fail"
           ELSE /\ pc' = [pc EXCEPT ![c] = "rendering"]
                /\ UNCHANGED <<result, lastStatus>>
    /\ UNCHANGED <<api_key, aigc_model, files, lastSaver, nextTask, calls, topic,
                   language, task_id, pdf_file, rendererCalls, fileWrites,
                   renOutcome, prev, cm, fn>>

\* lines 170-175 with __khutbah_to_pdf (60-136)
Render(c) ==
    /\ pc[c] = "rendering"
    /\ \E o \in RenOutcomes :
        LET md == markdown_text[c].val
            pdf == RendererResult(md, topic[c], language[c], o)
            path == pdf_path(topic[c], language[c])
        IN
        /\ renOutcome' = [renOutcome EXCEPT ![c] = o]
        /\ rendererCalls' = [rendererCalls EXCEPT ![c] = @ + 1]
        /\ pdf_file' = [pdf_file EXCEPT ![c] = pdf]
        /\ IF RendererRaises(md, o)
           THEN UNCHANGED <<files, lastSaver, fileWrites>>
           ELSE /\ files' = Saved(files, path, Document(md, topic[c]))
                /\ lastSaver' = NoteSaver(lastSaver, path, task_id[c])
                /\ fileWrites' = [fileWrites EXCEPT ![c] = @ + 1]
        /\ IF RendererFailed(pdf)
           THEN /\ log' = log \cup RendererLog(task_id[c], md, o)
                /\ result' = [result EXCEPT ![c] = NonePair]
                /\ lastStatus' = "fail"
           ELSE /\ log' = log \cup RendererLog(task_id[c], md, o)
                           \cup {LogRec("info", task_id[c], "Khutbah generation complete!")}
                /\ result' = [result EXCEPT ![c] = <<pdf, markdown_text[c]>>]
                /\ lastStatus' = "ok"
    /\ pc' = [pc EXCEPT ![c] = "done"]
    /\ UNCHANGED <<api_key, aigc_model, genai_key, nextTask, calls, topic, language,
                   task_id, markdown_text, modelCalls, genOutcome, prev, cm, fn>>

\* the caller takes the returned pair; the call's locals are gone
Return(c) ==
    /\ pc[c] = "done"
    /\ pc' = [pc EXCEPT ![c] = "idle"]
    /\ topic' = [topic EXCEPT ![c] = <<>>]
    /\ language' = [language EXCEPT ![c] = <<>>]
    /\ task_id' = [task_id EXCEPT ![c] = 0]
    /\ markdown_text' = [markdown_text EXCEPT ![c] = None]
    /\ pdf_file' = [pdf_file EXCEPT ![c] = None]
    /\ result' = [result EXCEPT ![c] = NonePair]
    /\ modelCalls' = [modelCalls EXCEPT ![c] = 0]
    /\ rendererCalls' = [rendererCalls EXCEPT ![c] = 0]
    /\ fileWrites' = [fileWrites EXCEPT ![c] = 0]
    /\ genOutcome' = [genOutcome EXCEPT ![c] = NoOutcome]
    /\ renOutcome' = [renOutcome EXCEPT ![c] = "none"]
    /\ prev' = [prev EXCEPT ![c] = "none"]
    /\ UNCHANGED <<api_key, aigc_model, genai_key, log, files, lastSaver, nextTask,
                   calls, lastStatus, cm, fn>>

Next ==
    \/ \E c \in Callers : Call(c)
    \/ \E c \in Callers : Generate(c)
    \/ \E c \in Callers : Render(c)
    \/ \E c \in Callers : Return(c)

Spec == Init /\ [][Next]_vars

----------------------------------------------------------------------------
(* __clean_markdown on fenced responses *)

InteriorAlphabet == {TICK, "a", NL, " "}
FenceTags == {<<>>, <<"m","d">>}
Fence == <<TICK, TICK, TICK>>

\* opening fence line + interior text + closing fence line
Fenced(tag, interior, trail) == Fence \o tag \o <<NL>> \o interior \o <<NL>> \o Fence \o trail

InitClean ==
    /\ InitMain
    /\ fn = FnIdle
    /\ \E tag \in FenceTags, interior \in StringsUpTo(InteriorAlphabet, MaxInterior),
          trail \in {<<>>, <<NL>>} :
        cm = [pc |-> "ready", tag |-> tag, interior |-> interior,
              text |-> Fenced(tag, interior, trail), out |-> <<>>]

\* line 54: self.__clean_markdown(response.text)
Clean ==
    /\ cm.pc = "ready"
    /\ cm' = [cm EXCEPT !.pc = "done", !.out = clean_markdown(cm.text)]
    /\ UNCHANGED <<mainVars, fn>>

NextClean == Clean

SpecClean == InitClean /\ [][NextClean]_vars

----------------------------------------------------------------------------
(* the renderer's file name on its own *)

TopicAlphabet == {"a", "Z", "7", "_", "-", "/", "!", ".", " ", "\\", "ARABIC_AIN"}

InitName ==
    /\ InitMain
    /\ cm = CmIdle
    /\ \E t \in StringsUpTo(TopicAlphabet, MaxTopicLen) \ {<<>>}, lang \in Languages :
        fn = [pc |-> "ready", topic |-> t, language |-> lang, path |-> <<>>]

\* lines 63-65
NamePdf ==
    /\ fn.pc = "ready"
    /\ fn' = [fn EXCEPT !.pc = "done", !.path = pdf_path(fn.topic, fn.language)]
    /\ UNCHANGED <<mainVars, cm>>

NextName == NamePdf

SpecName == InitName /\ [][NextName]_vars

----------------------------------------------------------------------------
(* Properties *)

Done(c) == pc[c] = "done"
Succeeded(c) == Done(c) /\ result[c] # NonePair
PathOf(c) == pdf_path(topic[c], language[c])
ErrorLogged(task) == \E r \in log : r.level = "error" /\ r.task = task

\* C1: every call ends by returning a pair that is (path, text) with both
\* present or (None, None), whatever the model call and the rendering library
\* did (returned, returned nothing, raised); a call that is under way can
\* always take its next step, so no stage outcome leaves it without a result.
C1_ResultIsPairOrNothing ==
    \A c \in Callers :
        /\ Done(c) =>
              \/ result[c] = NonePair
              \/ /\ Truthy(result[c][1])
                 /\ Truthy(result[c][2])
        /\ pc[c] = "generating" => ENABLED Generate(c)
        /\ pc[c] = "rendering" => ENABLED Render(c)

\* C1 witness: calls have ended after a raised model call, after a raised
\* renderer and after a success.
C1_Witness ==
    \E c, d \in Callers :
        /\ Done(c) /\ renOutcome[c] = "save_error" /\ result[c] = NonePair
        /\ Succeeded(d) /\ Truthy(result[d][1]) /\ Truthy(result[d][2])

\* C2: a call with the empty topic returns (None, None) in one step that
\* allocates no task id, invokes neither the generator nor the renderer, and
\* adds to the log the 'Topic is required!' error and nothing else.
C2_EmptyTopicRejected ==
    [][\A c \in Callers :
          (pc[c] = "idle" /\ pc'[c] # "idle" /\ topic'[c] = <<>>) =>
              /\ pc'[c] = "done"
              /\ result'[c] = NonePair
              /\ nextTask' = nextTask
              /\ task_id'[c] = 0
              /\ modelCalls'[c] = 0
              /\ rendererCalls'[c] = 0
              /\ fileWrites'[c] = 0
              /\ files' = files
              /\ LogRec("error", 0, "Topic is required!") \in log'
              /\ log' \ log \subseteq {LogRec("error", 0, "Topic is required!")}
      ]_vars

\* C2 witness: a call with the empty topic has returned (None, None).
C2_Witness ==
    \E c \in Callers :
        /\ Done(c) /\ topic[c] = <<>> /\ result[c] = NonePair
        /\ calls > 0 /\ task_id[c] = 0

\* C3: with a non-empty topic the renderer is invoked only after the
\* generator has run, and when the generator returned no result the renderer
\* is not invoked, no file is written and the call returns (None, None).
C3_GeneratorFailureSkipsRenderer ==
    \A c \in Callers :
        /\ (pc[c] = "rendering" \/ rendererCalls[c] > 0) =>
              /\ modelCalls[c] = 1
              /\ Truthy(markdown_text[c])
        /\ (modelCalls[c] > 0 /\ ~Truthy(markdown_text[c])) =>
              /\ Done(c)
              /\ rendererCalls[c] = 0
              /\ fileWrites[c] = 0
              /\ renOutcome[c] = "none"
              /\ result[c] = NonePair

\* C3 witness: a call whose model call raised has returned without rendering.
C3_Witness ==
    \E c \in Callers :
        /\ Done(c) /\ genOutcome[c] = Raised /\ markdown_text[c] = None
        /\ rendererCalls[c] = 0 /\ result[c] = NonePair

\* C4: when the cleaned text starts with a top-level heading and the rendering
\* library and the file write succeed, the renderer returns the document path
\* and the saved document's content is the cleaned text, heading included once.
C4_HeadingKept ==
    \A c \in Callers :
        (/\ Done(c) /\ rendererCalls[c] = 1
         /\ StartsWith(markdown_text[c].val, H1)
         /\ renOutcome[c] = "ok") =>
            /\ pdf_file[c] = Some(PathOf(c))
            /\ PathOf(c) \in DOMAIN files
            /\ files[PathOf(c)].content = markdown_text[c].val

\* C5: when the cleaned text does not start with a top-level heading, the
\* content rendered into the saved document begins with a top-level heading.
C5_HeadingSynthesized ==
    \A c \in Callers :
        (/\ Done(c) /\ rendererCalls[c] = 1
         /\ ~StartsWith(markdown_text[c].val, H1)
         /\ fileWrites[c] = 1) =>
            /\ PathOf(c) \in DOMAIN files
            /\ StartsWith(files[PathOf(c)].content, H1)

\* C6: for a response made of an opening fence line (with or without a
\* language tag), an interior text and a closing fence line, __clean_markdown
\* returns exactly the interior text with surrounding whitespace trimmed.
C6_CleanReturnsInterior ==
    cm.pc = "done" => cm.out = Strip(cm.interior)

\* the base name of a path without its .pdf extension
Stem(path) == SubSeq(Basename(path), 1, Len(Basename(path)) - Len(PdfExt))

\* C7: for every topic and each of the five language labels the file name
\* before the .pdf extension holds only word characters, hyphens and
\* underscores, and the path is a direct child of the temporary directory.
C7_FileNameSafe ==
    fn.pc = "done" =>
        /\ \A i \in 1..Len(Stem(fn.path)) :
              IsWordChar(Stem(fn.path)[i]) \/ Stem(fn.path)[i] \in {"-", "_"}
        /\ Dirname(fn.path) = TempDir
        /\ fn.path = TempDir \o <<"/">> \o Stem(fn.path) \o PdfExt
        /\ Len(Stem(fn.path)) = Len(fn.topic) + Len(KhutbahInfix) + Len(fn.language)

\* C7 witness: a file name has been computed for a topic with a slash and a dot.
C7_Witness ==
    /\ fn.pc = "done"
    /\ fn.topic = <<"/", ".">>
    /\ fn.language = BahasaMalaysia

C9_FailureLogged ==
    \A c \in Callers :
        (Done(c) /\ task_id[c] # 0 /\ result[c] = NonePair) => ErrorLogged(task_id[c])

\* C10: two invocations with the same topic and language that both succeed
\* return the same path, and the file at that path is the document of the one
\* that saved last.
C10_LastWriterWins ==
    \A c, d \in Callers :
        (/\ c # d /\ Succeeded(c) /\ Succeeded(d)
         /\ topic[c] = topic[d] /\ language[c] = language[d]) =>
            /\ result[c][1] = result[d][1]
            /\ result[c][1].val \in DOMAIN files
            /\ lastSaver[result[c][1].val] \in {task_id[c], task_id[d]}
            /\ \A e \in {c, d} :
                  lastSaver[result[c][1].val] = task_id[e] =>
                      files[result[c][1].val].content = result[e][2].val

\* C10 witness: both invocations succeeded with the same path and the file
\* there does not hold the text one of them returned.
C10_Witness ==
    \E c, d \in Callers :
        /\ c # d /\ Succeeded(c) /\ Succeeded(d)
        /\ result[c][1] = result[d][1]
        /\ files[result[c][1].val].content = result[d][2].val
        /\ files[result[c][1].val].content # result[c][2].val

====
